---- MODULE Spec2Model ----
(***************************************************************************)
(* SMART-on-FHIR EHR launch sequence of the patient dashboard              *)
(* (LaunchPage and its helpers), modelled as a state machine over one      *)
(* browser tab: the tab's sessionStorage, the current page load with its   *)
(* query string, the LaunchPage effect and the asynchronous invocations    *)
(* of handleSmartLaunch it starts, and the network requests they issue.    *)
(***************************************************************************)
EXTENDS Integers, Sequences, FiniteSets, TLC

\* ------------------------------------------------------------------ bounds
\* page loads (navigations to /launch) in one tab
MaxLoads == 3
\* invocations of the LaunchPage effect in one page load
MaxEffects == 2
\* page loads followed under the fairness conditions and next to the home
\* page's launch buttons
MaxLiveLoads == 2

\* ------------------------------------------------------------ JavaScript
\* null, as returned by URLSearchParams.get / sessionStorage.getItem
Null == "<null>"
\* what String(undefined) gives where a missing JSON field is used as text
Undefined == "undefined"

\* JavaScript truthiness of a string-or-null value: `if (x)`
Truthy(v) == v /= Null /\ v /= ""

\* ---------------------------------------------------------------- config
MEDPLUM_CLIENT_ID == "d68a6a98-d5ea-4e1b-9dff-ae215249179f"
SMART_HEALTH_IT_CLIENT_ID == "your-client-id"
FHIR_SCOPE == "launch/patient patient/*.read"
\* window.location.origin + '/launch'
RedirectUri == "https://app.example/launch"

\* --------------------------------------------------------------- issuers
MedplumIss == "https://api.medplum.com/fhir/R4"
SmartHealthIss == "https://smarthealthit.org/fhir"
EhrIss == "https://ehr.example.org"
\* a text that `new URL(iss)` rejects
BadUrlIss == "ehr.example.org"
\* an issuer on a host of its own whose path contains the text medplum.com
LookalikeIss == "https://evil.example/medplum.com"

Issuers == {MedplumIss, SmartHealthIss, EhrIss, BadUrlIss}

\* new URL(iss) succeeds
ValidUrl(iss) == iss \in {MedplumIss, SmartHealthIss, EhrIss, LookalikeIss}

\* new URL(iss).hostname
Hostname(iss) ==
  CASE iss = MedplumIss -> "api.medplum.com"
    [] iss = SmartHealthIss -> "smarthealthit.org"
    [] iss = EhrIss -> "ehr.example.org"
    [] iss = LookalikeIss -> "evil.example"
    [] OTHER -> Null

\* iss.includes('medplum.com')
IncludesMedplum(iss) == iss \in {MedplumIss, LookalikeIss}

allowedHosts == {"smarthealthit.org"}

\* ------------------------------------------------------------------ PKCE
\* crypto.randomUUID(): the n-th value drawn in this tab; draws are fresh
randomUUID(n) == "uuid-" \o ToString(n)

\* generateCodeVerifier(): base64url text of the n-th 32 random bytes
generateCodeVerifier(n) == "verifier-" \o ToString(n)

\* the "plain" challenge: the verifier itself
generateCodeChallengePlain(verifier) == verifier

\* generateCodeChallenge(verifier): base64url(SHA-256(verifier)), a function
\* of the verifier that is not the verifier
generateCodeChallenge(verifier) == "S256(" \o verifier \o ")"

\* ------------------------------------------------------- sessionStorage
Keys == {"smart_iss", "smart_state", "smart_code_verifier",
         "smart_patient", "smart_access_token", "smart_base_url"}

InFlightKeys == {"smart_iss", "smart_state", "smart_code_verifier"}

EmptyStore == [k \in Keys |-> Null]

setItem(s, k, v) == [s EXCEPT ![k] = v]

\* removeItem that leaves the key in place
removeItemKept(s, k) == s

removeItem(s, k) == [s EXCEPT ![k] = Null]

\* ------------------------------------------------------------- messages
NoError == <<>>

MissingJoined(missing) ==
  IF Len(missing) = 2 THEN <<missing[1], ", ", missing[2]>> ELSE missing

OAuthErrorMsg(err, desc) ==
  <<"OAuth error: ", err>> \o (IF Truthy(desc) THEN <<" - ", desc>> ELSE <<>>)

MissingIssMsg == <<"Missing iss parameter for EHR launch">>

MissingParamsMsg(missing) ==
  <<"Missing required parameters in authorization response: ">> \o MissingJoined(missing)

StateMismatchMsg ==
  <<"State parameter mismatch - possible session expired. Please try launching the app again.">>

NoIssuerMsg == <<"No issuer found in session storage">>

MissingVerifierMsg == <<"Missing code verifier - session may have expired">>

ConfigFailedMsg(configUrl, status, statusText) ==
  <<"Failed to fetch SMART configuration from ", configUrl, ": ", status,
    " ", statusText>>

TokenFailedMsg(status, errorText) ==
  <<"Failed to get access token: ", status, " ", errorText>>

\* messages of the TypeError / SyntaxError the platform throws
FetchFailedMsg == <<"Failed to fetch">>
InvalidUrlMsg == <<"Invalid URL">>
JsonErrorMsg == <<"Unexpected token in JSON">>


\* ------------------------------------------------------ getClientId
\* new URL(iss) throws: reached only when no client_id parameter is given
getClientIdThrows(params, iss) == ~Truthy(params.client_id) /\ ~ValidUrl(iss)

\* getClientId that lets the issuer's allow-list win over the parameter
getClientIdIssuerFirst(params, iss) ==
  IF Hostname(iss) \in allowedHosts THEN SMART_HEALTH_IT_CLIENT_ID
  ELSE IF Truthy(params.client_id) THEN params.client_id
  ELSE MEDPLUM_CLIENT_ID

getClientId(params, iss) ==
  IF Truthy(params.client_id) THEN params.client_id
  ELSE IF Hostname(iss) \in allowedHosts THEN SMART_HEALTH_IT_CLIENT_ID
  ELSE MEDPLUM_CLIENT_ID

\* ------------------------------------------ fetchSmartConfiguration
NoConfig == [authorization_endpoint |-> Null, token_endpoint |-> Null]

MedplumConfig ==
  [authorization_endpoint |-> "https://api.medplum.com/oauth2/authorize",
   token_endpoint |-> "https://api.medplum.com/oauth2/token"]

ConfigUrl(iss) == iss \o "/.well-known/smart-configuration"

\* the discovery document an issuer serves when it serves a complete one
IssuerConfig(iss) ==
  [authorization_endpoint |-> iss \o "/authorize",
   token_endpoint |-> iss \o "/token"]

\* what the network can answer to the discovery GET: a JSON document (with
\* or without the endpoint fields), a non-success status, a body that is
\* not JSON, or no answer at all (fetch rejects)
DiscoveryResponses(iss) ==
  { [kind |-> "ok", status |-> "200", config |-> IssuerConfig(iss)],
    [kind |-> "ok", status |-> "200",
     config |-> [IssuerConfig(iss) EXCEPT !.authorization_endpoint = Undefined]],
    [kind |-> "ok", status |-> "200",
     config |-> [IssuerConfig(iss) EXCEPT !.token_endpoint = Undefined]],
    [kind |-> "not_ok", status |-> "404", config |-> NoConfig],
    [kind |-> "bad_json", status |-> "200", config |-> NoConfig],
    [kind |-> "network_error", status |-> "0", config |-> NoConfig] }

\* the answers fetchSmartConfiguration can wait for: none for Medplum
ConfigAnswers(iss) ==
  IF IncludesMedplum(iss)
  THEN {[kind |-> "hardcoded", status |-> "0", config |-> MedplumConfig]}
  ELSE DiscoveryResponses(iss)

\* fetchSmartConfigurationRequests without the Medplum shortcut: the
\* discovery GET goes out for every issuer
fetchSmartConfigurationRequestsAlways(iss) == <<ConfigUrl(iss)>>

\* the GETs fetchSmartConfiguration issues before it first suspends
fetchSmartConfigurationRequests(iss) ==
  IF IncludesMedplum(iss) THEN <<>> ELSE <<ConfigUrl(iss)>>

\* fetchSmartConfigurationError without the `!response.ok` check: only a
\* rejected fetch or an unparseable body throws
fetchSmartConfigurationErrorOkUnchecked(iss, resp) ==
  CASE resp.kind = "network_error" -> FetchFailedMsg
    [] resp.kind = "bad_json" -> JsonErrorMsg
    [] OTHER -> NoError

\* response.statusText of a non-success discovery answer
StatusText(resp) == "Not Found"

\* the message it throws on an answer, NoError when it returns
fetchSmartConfigurationError(iss, resp) ==
  CASE resp.kind = "network_error" -> FetchFailedMsg
    [] resp.kind = "not_ok" -> ConfigFailedMsg(ConfigUrl(iss), resp.status, StatusText(resp))
    [] resp.kind = "bad_json" -> JsonErrorMsg
    [] OTHER -> NoError

\* the value it returns: the hardcoded pair or response.json() as it is
fetchSmartConfiguration(iss, resp) ==
  IF IncludesMedplum(iss) THEN MedplumConfig ELSE resp.config

\* missingParams that only looks for the code
missingParamsCodeOnly(params) ==
  IF ~Truthy(params.code) THEN <<"code">> ELSE <<>>

\* ---------------------------------------------- validateAuthResponse
missingParams(params) ==
  (IF ~Truthy(params.code) THEN <<"code">> ELSE <<>>)
    \o (IF ~Truthy(params.state) THEN <<"state">> ELSE <<>>)

\* validateAuthResponse without the comparison against the stored state
validateAuthResponseNoStateCheck(params, s) ==
  IF Len(missingParams(params)) > 0 THEN MissingParamsMsg(missingParams(params))
  ELSE NoError

\* validateAuthResponse that compares the state only when one is stored
validateAuthResponseStoredOnly(params, s) ==
  IF Len(missingParams(params)) > 0 THEN MissingParamsMsg(missingParams(params))
  ELSE IF Truthy(s["smart_state"]) /\ params.state /= s["smart_state"]
  THEN StateMismatchMsg
  ELSE NoError

\* the message validateAuthResponse throws, NoError when it returns
validateAuthResponse(params, s) ==
  IF Len(missingParams(params)) > 0 THEN MissingParamsMsg(missingParams(params))
  ELSE IF params.state /= s["smart_state"] THEN StateMismatchMsg
  ELSE NoError

\* --------------------------------------------- exchangeCodeForToken
\* a token request that sends the challenge where the verifier belongs
tokenBodyWithChallenge(params, clientId, codeVerifier) ==
  [grant_type |-> "authorization_code",
   code |-> params.code,
   redirect_uri |-> RedirectUri,
   client_id |-> clientId,
   code_verifier |-> generateCodeChallenge(codeVerifier)]

\* the form body of the token request
tokenBody(params, clientId, codeVerifier) ==
  [grant_type |-> "authorization_code",
   code |-> params.code,
   redirect_uri |-> RedirectUri,
   client_id |-> clientId,
   code_verifier |-> codeVerifier]

\* what the token endpoint can answer to the POST
TokenResponses ==
  { [kind |-> "ok", status |-> "200", access_token |-> "tok1", patient |-> "pat1"],
    [kind |-> "ok", status |-> "200", access_token |-> "tok2", patient |-> "pat2"],
    [kind |-> "not_ok", status |-> "400", access_token |-> Null, patient |-> Null],
    [kind |-> "bad_json", status |-> "200", access_token |-> Null, patient |-> Null],
    [kind |-> "network_error", status |-> "0", access_token |-> Null, patient |-> Null] }

\* no token response parsed
NoToken == [access_token |-> Null, patient |-> Null]

\* tokenResponse.json() of a success answer
tokenJson(resp) == [access_token |-> resp.access_token, patient |-> resp.patient]

\* exchangeCodeForToken without the check of the stored verifier
verifierUnchecked(s) == FALSE

\* the stored verifier is missing: `if (!codeVerifier)`
missingVerifier(s) == ~Truthy(s["smart_code_verifier"])

\* tokenResponse.text() of a non-success answer
ErrorText(resp) == "invalid_grant"

\* exchangeCodeForTokenError without the `!tokenResponse.ok` check
exchangeCodeForTokenErrorOkUnchecked(resp) ==
  CASE resp.kind = "network_error" -> FetchFailedMsg
    [] resp.kind = "bad_json" -> JsonErrorMsg
    [] OTHER -> NoError

\* the message exchangeCodeForToken throws on an answer, NoError otherwise
exchangeCodeForTokenError(resp) ==
  CASE resp.kind = "network_error" -> FetchFailedMsg
    [] resp.kind = "not_ok" -> TokenFailedMsg(resp.status, ErrorText(resp))
    [] resp.kind = "bad_json" -> JsonErrorMsg
    [] OTHER -> NoError

\* ------------------------------------------------ setupMedplumClient
\* setupMedplumClient with the patient and the token under each other's key
setupMedplumClientSwapped(s, tokenData, iss) ==
  setItem(setItem(setItem(s, "smart_patient", tokenData.access_token),
                  "smart_access_token", tokenData.patient),
          "smart_base_url", iss)

\* setupMedplumClient that does not store the base URL
setupMedplumClientNoBaseUrl(s, tokenData, iss) ==
  setItem(setItem(s, "smart_patient", tokenData.patient),
          "smart_access_token", tokenData.access_token)

setupMedplumClient(s, tokenData, iss) ==
  setItem(setItem(setItem(s, "smart_patient", tokenData.patient),
                  "smart_access_token", tokenData.access_token),
          "smart_base_url", iss)

NoClient == [baseUrl |-> Null, accessToken |-> Null]

\* -------------------------------------------------- initiateEhrLaunch
\* no authorization URL
NoUrl ==
  [endpoint |-> Null, response_type |-> Null, client_id |-> Null,
   scope |-> Null, redirect_uri |-> Null, state |-> Null, aud |-> Null,
   launch |-> Null, code_challenge |-> Null, code_challenge_method |-> Null]

\* authorizationUrl with the authorization endpoint as audience instead of
\* the issuer
authorizationUrlAudEndpoint(config, clientId, state, iss, launch, codeChallenge) ==
  [endpoint |-> config.authorization_endpoint,
   response_type |-> "code",
   client_id |-> clientId,
   scope |-> FHIR_SCOPE,
   redirect_uri |-> RedirectUri,
   state |-> state,
   aud |-> config.authorization_endpoint,
   launch |-> launch,
   code_challenge |-> codeChallenge,
   code_challenge_method |-> "S256"]

\* the authorization URL the browser is sent to
authorizationUrl(config, clientId, state, iss, launch, codeChallenge) ==
  [endpoint |-> config.authorization_endpoint,
   response_type |-> "code",
   client_id |-> clientId,
   scope |-> FHIR_SCOPE,
   redirect_uri |-> RedirectUri,
   state |-> state,
   aud |-> iss,
   launch |-> launch,
   code_challenge |-> codeChallenge,
   code_challenge_method |-> "S256"]


\* ------------------------------------------------------------- state
VARIABLES
  store,          \* sessionStorage of the tab
  query,          \* window.location.search of the current page load
  runs,           \* the invocations of handleSmartLaunch of this page load
  hasInitialized, \* hasInitialized.current
  error,          \* the error state of LaunchPage (NoError: the loader shows)
  nav,            \* where this page load has sent the browser
  medplum,        \* medplumContext.medplum as set by setupMedplumClient
  posts,          \* token-exchange POSTs issued in this page load
  fetches,        \* discovery GETs issued in this page load
  loads,          \* page loads so far
  effects,        \* effect invocations in this page load
  draws,          \* random values drawn so far in this tab
  loadStore,      \* history: sessionStorage as this page load found it
  sentVerifiers,  \* history: code_verifier of every POST issued in the tab
  lastAuthRequest, \* history: the authorization URL the tab was last sent to
  consumedStates  \* history: state of every callback that completed its exchange

launchVars == <<store, query, runs, hasInitialized, error, nav, medplum, posts,
                fetches, loads, effects, draws, loadStore, sentVerifiers,
                lastAuthRequest, consumedStates>>

\* ============================================================ PKCE bytes
\* generateCodeVerifier, base64UrlEncode and generateCodeChallenge at the
\* level of bytes and characters.  Text is a sequence of one-character
\* strings; a byte is a number in 0..255.

\* bytes of the input arrays that are enumerated in full up to MaxBytes:
\* 251 and 255 give the base64 characters '+' and '/', 0 and 65 give letters
ByteValues == {0, 65, 251, 255}

\* the base64 alphabet of btoa
Base64Alphabet ==
  <<"A","B","C","D","E","F","G","H","I","J","K","L","M","N","O","P",
    "Q","R","S","T","U","V","W","X","Y","Z","a","b","c","d","e","f",
    "g","h","i","j","k","l","m","n","o","p","q","r","s","t","u","v",
    "w","x","y","z","0","1","2","3","4","5","6","7","8","9","+","/">>

Pow2(n) == IF n = 0 THEN 1 ELSE IF n = 2 THEN 4 ELSE IF n = 4 THEN 16
           ELSE IF n = 6 THEN 64 ELSE IF n = 8 THEN 256 ELSE 1024

\* byte i of bytes, 0 past the end (the zero bits btoa fills the last group with)
ByteAt(bytes, i) == IF i <= Len(bytes) THEN bytes[i] ELSE 0

\* the j-th group of six bits of bytes
Sextet(bytes, j) ==
  LET o == (j - 1) * 6
      b == (o \div 8) + 1
      r == o % 8
  IN ((ByteAt(bytes, b) * 256 + ByteAt(bytes, b + 1)) \div Pow2(10 - r)) % 64

\* btoa(String.fromCharCode(...bytes)): standard base64 with '=' padding to
\* a multiple of four characters
btoa(bytes) ==
  LET n == (Len(bytes) * 8 + 5) \div 6
      padded == ((n + 3) \div 4) * 4
  IN [j \in 1..padded |->
        IF j <= n THEN Base64Alphabet[Sextet(bytes, j) + 1] ELSE "="]

\* text.replace(/<from>/g, to) for a one-character pattern
replaceAll(text, from, to) ==
  [j \in 1..Len(text) |-> IF text[j] = from THEN to ELSE text[j]]

\* text.replace(/<ch>/g, '')
RECURSIVE removeAll(_, _)
removeAll(text, ch) ==
  IF text = <<>> THEN <<>>
  ELSE (IF Head(text) = ch THEN <<>> ELSE <<Head(text)>>) \o removeAll(Tail(text), ch)

\* base64UrlEncode that keeps the '=' padding
base64UrlEncodePadded(buffer) ==
  replaceAll(replaceAll(btoa(buffer), "+", "-"), "/", "_")

base64UrlEncode(buffer) ==
  removeAll(replaceAll(replaceAll(btoa(buffer), "+", "-"), "/", "_"), "=")

\* position of a character of the URL-safe alphabet in it, 0-based
UrlSafeIndex(ch) ==
  IF ch = "-" THEN 62 ELSE IF ch = "_" THEN 63
  ELSE (CHOOSE i \in 1..64 : Base64Alphabet[i] = ch) - 1

\* the character code of a character of the URL-safe alphabet, as
\* TextEncoder.encode gives it
CharCode(ch) ==
  LET i == UrlSafeIndex(ch)
  IN IF ch = "-" THEN 45 ELSE IF ch = "_" THEN 95
     ELSE IF i < 26 THEN 65 + i
     ELSE IF i < 52 THEN 97 + (i - 26)
     ELSE 48 + (i - 52)

\* new TextEncoder().encode(text) for text of the URL-safe alphabet
encode(text) == [j \in 1..Len(text) |-> CharCode(text[j])]

RECURSIVE WeightedSum(_, _)
WeightedSum(data, k) ==
  IF data = <<>> THEN 0
  ELSE (Head(data) * k + WeightedSum(Tail(data), k + 1)) % 65536

\* crypto.subtle.digest('SHA-256', data): 32 bytes that are a function of
\* data; the function is a stand-in for SHA-256, which is not computed here
digest(data) ==
  [i \in 1..32 |-> (WeightedSum(data, i) + 31 * i) % 256]

\* generateCodeChallenge(verifier) on text: the text it resolves with
codeChallengeText(verifier) == base64UrlEncode(digest(encode(verifier)))

\* ----------------------------------------------------- PkceSpec: state
\* longest input array enumerated in full
MaxBytes == 3

\* 32-byte arrays as crypto.getRandomValues can fill them
VerifierArrays ==
  {[i \in 1..32 |-> b] : b \in ByteValues}
    \cup {[i \in 1..32 |-> (i * 37) % 256], [i \in 1..32 |-> 255 - i]}

\* the input arrays of base64UrlEncode that are checked
Buffers ==
  UNION {[1..n -> ByteValues] : n \in 0..MaxBytes} \cup VerifierArrays

VARIABLES
  buffer,      \* the Uint8Array handed to base64UrlEncode
  encoded,     \* the text base64UrlEncode returned for it
  challenges,  \* the results of generateCodeChallenge(encoded) so far
  pkcePc       \* "rest", "drawn", "encoded"

pkceVars == <<buffer, encoded, challenges, pkcePc>>

\* the PKCE helpers are not being exercised
PkceAtRest ==
  /\ buffer = <<>>
  /\ encoded = <<>>
  /\ challenges = <<>>
  /\ pkcePc = "rest"

VARIABLES
  homeStates   \* history: the states SmartLaunch.handleClick has drawn

homeVars == <<homeStates>>

\* ============================================================ VoiceNotes
\* The VoiceNotes component of the patient dashboard with the patient
\* selector above it: its notes state, its patientId prop and the
\* patient-notes-<id> entries of localStorage.

\* getAvailablePatients(): the ids the selector offers
Patients == {"patient1", "patient2"}

\* notes created in one run
MaxNotes == 3

\* a note as the component holds it; createdFor is history (the patientId
\* prop when the note was created) and no field of the program's Note
Note(id, createdFor) ==
  [id |-> id, timestamp |-> <<"Date", id>>, createdFor |-> createdFor]

\* JSON.stringify(notes): a Date becomes its ISO text
stringify(ns) ==
  [i \in DOMAIN ns |-> [ns[i] EXCEPT !.timestamp = <<"ISO", ns[i].timestamp[2]>>]]

\* JSON.parse(savedNotes).map(note => ({...note, timestamp: new Date(note.timestamp)}))
parseNotes(text) ==
  [i \in DOMAIN text |-> [text[i] EXCEPT !.timestamp = <<"Date", text[i].timestamp[2]>>]]

\* prev.filter(note => note.id !== id)
RECURSIVE filterOut(_, _)
filterOut(ns, id) ==
  IF ns = <<>> THEN <<>>
  ELSE (IF Head(ns).id = id THEN <<>> ELSE <<Head(ns)>>) \o filterOut(Tail(ns), id)

\* a localStorage key with text under it, and a key that is not there
\* (getItem gives null)
Item(text) == [present |-> TRUE, text |-> text]

NoItem == [present |-> FALSE, text |-> <<>>]

\* the save effect: `if (notes.length > 0) localStorage.setItem(key, ...)`
saveEffect(ls, pid, ns) ==
  IF Len(ns) > 0 THEN [ls EXCEPT ![pid] = Item(stringify(ns))] ELSE ls

VARIABLES
  patientId,   \* the patientId prop of VoiceNotes (selectedPatientId)
  notes,       \* the notes state of VoiceNotes
  localNotes,  \* localStorage: patient id -> the item under patient-notes-<id>
  nextId       \* the next Date.now() of a new note

notesVars == <<patientId, notes, localNotes, nextId>>

\* the dashboard is not open
NotesAtRest ==
  /\ patientId = "patient1"
  /\ notes = <<>>
  /\ localNotes = [p \in Patients |-> NoItem]
  /\ nextId = 1

\* what a step of the launch sequence leaves alone
otherVars == <<pkceVars, homeVars, notesVars>>

vars == <<launchVars, pkceVars, homeVars, notesVars>>

\* URLSearchParams of a page load: get() of each name the code reads
Params(err, desc, launch, iss, code, state, clientId) ==
  [error |-> err, error_description |-> desc, launch |-> launch, iss |-> iss,
   code |-> code, state |-> state, client_id |-> clientId]

NoParams == Params(Null, Null, Null, Null, Null, Null, Null)

\* the state values drawn so far in this tab
DrawnStates(n) == {randomUUID(i) : i \in 1..n}

\* The query strings a page load can carry: none; an OAuth error answer,
\* alone or on top of launch and callback parameters; an EHR launch, with
\* and without iss and client_id, at a lookalike issuer, or with a stray
\* code; an authorization
\* response whose code and state are absent, empty, never stored or drawn in
\* this tab, with and without a client_id or an empty error.
Queries(n) ==
  {NoParams}
  \cup { Params("access_denied", d, o[1], o[2], o[3], o[4], Null) :
           d \in {Null, "User denied"},
           o \in {<<Null, Null, Null, Null>>} \cup
                 {<<"abc123", EhrIss, "code1", st>> : st \in DrawnStates(n)} }
  \cup { Params(Null, Null, "abc123", i, Null, Null, cid) :
           i \in Issuers, cid \in {Null, "custom-client"} }
  \cup { Params(Null, Null, "abc123", Null, Null, Null, Null),
         Params(Null, Null, "abc123", SmartHealthIss, Null, Null, ""),
         Params(Null, Null, "abc123", LookalikeIss, Null, Null, Null),
         Params(Null, Null, "abc123", EhrIss, "code1", "forged", Null) }
  \cup { Params(Null, Null, Null, Null, "code1", st, Null) :
           st \in {Null, "", "forged"} \cup DrawnStates(n) }
  \cup { Params(Null, Null, Null, Null, c, "forged", Null) : c \in {Null, ""} }
  \cup { Params(Null, Null, Null, Null, "code2", st, cid) :
           st \in DrawnStates(n), cid \in {"", "custom-client"} }
  \cup { Params("", Null, Null, Null, "code1", st, Null) : st \in DrawnStates(n) }

NoNav == [kind |-> "none", to |-> Null, url |-> NoUrl]
Navigate(to) == [kind |-> "navigate", to |-> to, url |-> NoUrl]
Redirect(url) == [kind |-> "redirect", to |-> Null, url |-> url]

\* one invocation of handleSmartLaunch: where it is suspended and its locals
Run(pc, iss, config, state, codeVerifier) ==
  [pc |-> pc, iss |-> iss, config |-> config, state |-> state,
   codeVerifier |-> codeVerifier, tokenData |-> NoToken,
   configAnswer |-> "none", tokenAnswer |-> "none"]

\* history: run r with the kind of answer its configuration request got
ConfigAnswered(r, resp) == [r EXCEPT !.configAnswer = resp.kind]

\* history: run r with the kind of answer its token request got
TokenAnswerOf(r, resp) == [r EXCEPT !.tokenAnswer = resp.kind]

Finished == Run("done", Null, NoConfig, Null, Null)

\* the stores a tab can hold when the launch page is first opened in it:
\* nothing, or the session an earlier completed handshake left
\* (setupMedplumClient's three keys, the in-flight keys removed)
InitialStores ==
  {EmptyStore,
   setupMedplumClient(EmptyStore, [access_token |-> "tok0", patient |-> "pat0"],
                      MedplumIss)}

Init ==
  /\ store \in InitialStores
  /\ query = NoParams
  /\ runs = <<>>
  /\ hasInitialized = FALSE
  /\ error = NoError
  /\ nav = NoNav
  /\ medplum = NoClient
  /\ posts = <<>>
  /\ fetches = <<>>
  /\ loads = 0
  /\ effects = 0
  /\ draws = 0
  /\ loadStore = store
  /\ sentVerifiers = <<>>
  /\ lastAuthRequest = NoUrl
  /\ consumedStates = {}
  /\ PkceAtRest
  /\ homeStates = {}
  /\ NotesAtRest

\* The browser loads /launch with query q: a fresh LaunchPage is mounted;
\* whatever the previous page load had pending is gone with its page.
PageLoad(q) ==
  /\ loads < MaxLoads
  /\ query' = q
  /\ runs' = <<>>
  /\ hasInitialized' = FALSE
  /\ error' = NoError
  /\ nav' = NoNav
  /\ medplum' = NoClient
  /\ posts' = <<>>
  /\ fetches' = <<>>
  /\ loads' = loads + 1
  /\ effects' = 0
  /\ loadStore' = store
  /\ UNCHANGED <<store, draws, sentVerifiers, lastAuthRequest>>
  /\ UNCHANGED consumedStates
  /\ UNCHANGED otherVars

\* handleSmartLaunch without the check for an OAuth error answer
oauthErrorUnchecked(params) == FALSE

\* the query carries an OAuth error answer: `if (error)`
hasOAuthError(params) == Truthy(params.error)

\* the launch test that gives way to a code
hasLaunchWithoutCode(params) == Truthy(params.launch) /\ ~Truthy(params.code)

\* `if (launch)`: the page load is an EHR launch, whatever else it carries
hasLaunch(params) == Truthy(params.launch)

\* handleSmartLaunch from its first line to its first await
\* (initiateEhrLaunch and validateAuthResponse included)
handleSmartLaunch ==
  LET params == query
      thrown(msg) ==
        /\ error' = msg
        /\ runs' = Append(runs, Finished)
        /\ UNCHANGED <<store, nav, fetches>>
  IN
  IF hasOAuthError(params)
  THEN thrown(OAuthErrorMsg(params.error, params.error_description))
  ELSE IF ~Truthy(params.launch) /\ ~Truthy(params.code)
  THEN /\ nav' = Navigate("/")
       /\ runs' = Append(runs, Finished)
       /\ UNCHANGED <<store, error, fetches>>
  ELSE IF /\ Truthy(store["smart_access_token"])
          /\ Truthy(store["smart_patient"])
          /\ ~Truthy(params.launch) /\ ~Truthy(params.code)
  THEN /\ nav' = Navigate("/patient")
       /\ runs' = Append(runs, Finished)
       /\ UNCHANGED <<store, error, fetches>>
  ELSE IF hasLaunch(params)
  THEN \* initiateEhrLaunch up to `await fetchSmartConfiguration(iss)`
       IF ~Truthy(params.iss)
       THEN thrown(MissingIssMsg)
       ELSE /\ store' = setItem(store, "smart_iss", params.iss)
            /\ fetches' = fetches \o fetchSmartConfigurationRequests(params.iss)
            /\ runs' = Append(runs, Run("init_config", params.iss, NoConfig, Null, Null))
            /\ UNCHANGED <<error, nav>>
  ELSE \* authorization response up to `await fetchSmartConfiguration(iss)`
       IF validateAuthResponse(params, store) /= NoError
       THEN thrown(validateAuthResponse(params, store))
       ELSE IF ~Truthy(store["smart_iss"])
       THEN thrown(NoIssuerMsg)
       ELSE /\ fetches' = fetches \o fetchSmartConfigurationRequests(store["smart_iss"])
            /\ runs' = Append(runs, Run("cb_config", store["smart_iss"], NoConfig, Null, Null))
            /\ UNCHANGED <<store, error, nav>>

\* the effect without its guard
neverInitialized == FALSE

\* the guard of the effect: `if (hasInitialized.current) return`
alreadyInitialized == hasInitialized

\* The effect of LaunchPage runs (mount, strict-mode second run, change of a
\* dependency): nothing when hasInitialized.current is set, otherwise it
\* sets it and calls handleSmartLaunch.
RunEffect ==
  /\ loads > 0
  /\ effects < MaxEffects
  /\ effects' = effects + 1
  /\ IF alreadyInitialized
     THEN UNCHANGED <<store, runs, hasInitialized, error, nav, fetches>>
     ELSE /\ hasInitialized' = TRUE
          /\ handleSmartLaunch
  /\ UNCHANGED <<query, medplum, posts, loads, draws, loadStore,
                 sentVerifiers, lastAuthRequest>>
  /\ UNCHANGED consumedStates
  /\ UNCHANGED otherVars


\* new URL(u) succeeds for an endpoint text u of a discovery document
ValidEndpointUrl(u) ==
  u \in {MedplumConfig.authorization_endpoint}
          \cup {IssuerConfig(i).authorization_endpoint : i \in {x \in Issuers : ValidUrl(x)}}

\* a catch block that ends the invocation without setError
CaughtUnreported(h, msg) ==
  /\ error' = error
  /\ runs' = [runs EXCEPT ![h].pc = "done"]

\* the catch block of handleSmartLaunch: run h ends, the message is shown
Caught(h, msg) ==
  /\ error' = msg
  /\ runs' = [runs EXCEPT ![h].pc = "done"]

\* initiateEhrLaunch resumes after `await fetchSmartConfiguration(iss)` and
\* runs to `await generateCodeChallenge(codeVerifier)`
InitiateConfigResolved(h, resp) ==
  /\ runs[h].pc = "init_config"
  /\ resp \in ConfigAnswers(runs[h].iss)
  /\ IF fetchSmartConfigurationError(runs[h].iss, resp) /= NoError
     THEN /\ error' = fetchSmartConfigurationError(runs[h].iss, resp)
          /\ runs' = [runs EXCEPT ![h] =
                        ConfigAnswered([runs[h] EXCEPT !.pc = "done"], resp)]
          /\ UNCHANGED <<store, draws>>
     ELSE /\ draws' = draws + 1
          /\ store' = setItem(store, "smart_state", randomUUID(draws + 1))
          /\ runs' = [runs EXCEPT ![h] =
                        ConfigAnswered(
                          Run("init_challenge", runs[h].iss,
                              fetchSmartConfiguration(runs[h].iss, resp),
                              randomUUID(draws + 1),
                              generateCodeVerifier(draws + 1)), resp)]
          /\ UNCHANGED error
  /\ UNCHANGED <<query, hasInitialized, nav, medplum, posts, fetches, loads,
                 effects, loadStore, sentVerifiers, lastAuthRequest>>
  /\ UNCHANGED consumedStates
  /\ UNCHANGED otherVars

\* initiateEhrLaunch resumes after `await generateCodeChallenge(...)` and
\* runs to the redirect
InitiateChallengeResolved(h) ==
  /\ runs[h].pc = "init_challenge"
  /\ store' = setItem(store, "smart_code_verifier", runs[h].codeVerifier)
  /\ IF getClientIdThrows(query, runs[h].iss)
          \/ ~ValidEndpointUrl(runs[h].config.authorization_endpoint)
     THEN /\ Caught(h, InvalidUrlMsg)
          /\ UNCHANGED <<nav, lastAuthRequest>>
     ELSE LET url == authorizationUrl(runs[h].config,
                                      getClientId(query, runs[h].iss),
                                      runs[h].state, runs[h].iss, query.launch,
                                      generateCodeChallenge(runs[h].codeVerifier))
          IN /\ nav' = Redirect(url)
             /\ lastAuthRequest' = url
             /\ runs' = [runs EXCEPT ![h].pc = "suspended"]
             /\ UNCHANGED error
  /\ UNCHANGED <<query, hasInitialized, medplum, posts, fetches, loads,
                 effects, draws, loadStore, sentVerifiers>>
  /\ UNCHANGED consumedStates
  /\ UNCHANGED otherVars

\* handleSmartLaunch resumes after `await fetchSmartConfiguration(iss)` of an
\* authorization response and runs into exchangeCodeForToken up to the
\* `await fetch(config.token_endpoint, ...)`
CallbackConfigResolved(h, resp) ==
  /\ runs[h].pc = "cb_config"
  /\ resp \in ConfigAnswers(runs[h].iss)
  /\ IF fetchSmartConfigurationError(runs[h].iss, resp) /= NoError
     THEN /\ error' = fetchSmartConfigurationError(runs[h].iss, resp)
          /\ runs' = [runs EXCEPT ![h] =
                        ConfigAnswered([runs[h] EXCEPT !.pc = "done"], resp)]
          /\ UNCHANGED <<posts, sentVerifiers>>
     ELSE IF getClientIdThrows(query, runs[h].iss)
     THEN /\ error' = InvalidUrlMsg
          /\ runs' = [runs EXCEPT ![h] =
                        ConfigAnswered(
                          Run("done", runs[h].iss,
                              fetchSmartConfiguration(runs[h].iss, resp), Null, Null),
                          resp)]
          /\ UNCHANGED <<posts, sentVerifiers>>
     ELSE IF missingVerifier(store)
     THEN /\ error' = MissingVerifierMsg
          /\ runs' = [runs EXCEPT ![h] =
                        ConfigAnswered(
                          Run("done", runs[h].iss,
                              fetchSmartConfiguration(runs[h].iss, resp), Null, Null),
                          resp)]
          /\ UNCHANGED <<posts, sentVerifiers>>
     ELSE /\ posts' = Append(posts,
                 [endpoint |-> fetchSmartConfiguration(runs[h].iss, resp).token_endpoint,
                  body |-> tokenBody(query, getClientId(query, runs[h].iss),
                                     store["smart_code_verifier"])])
          /\ sentVerifiers' = Append(sentVerifiers, store["smart_code_verifier"])
          /\ runs' = [runs EXCEPT ![h] =
                        ConfigAnswered(
                          Run("cb_token", runs[h].iss,
                              fetchSmartConfiguration(runs[h].iss, resp), Null,
                              store["smart_code_verifier"]), resp)]
          /\ UNCHANGED error
  /\ UNCHANGED <<store, query, hasInitialized, nav, medplum, fetches, loads,
                 effects, draws, loadStore, lastAuthRequest>>
  /\ UNCHANGED consumedStates
  /\ UNCHANGED otherVars

\* exchangeCodeForToken resumes on the answer to the POST; on success
\* handleSmartLaunch cleans the in-flight keys, calls setupMedplumClient and
\* navigates to /patient
TokenAnswered(h, resp) ==
  /\ runs[h].pc = "cb_token"
  /\ resp \in TokenResponses
  /\ IF exchangeCodeForTokenError(resp) /= NoError
     THEN /\ error' = exchangeCodeForTokenError(resp)
          /\ runs' = [runs EXCEPT ![h] =
                        TokenAnswerOf([runs[h] EXCEPT !.pc = "done"], resp)]
          /\ UNCHANGED <<store, hasInitialized, nav, medplum, consumedStates>>
     ELSE /\ store' = setupMedplumClient(
                        removeItem(removeItem(removeItem(store, "smart_state"),
                                              "smart_iss"),
                                   "smart_code_verifier"),
                        tokenJson(resp), runs[h].iss)
          /\ medplum' = [baseUrl |-> runs[h].iss, accessToken |-> resp.access_token]
          /\ hasInitialized' = TRUE
          /\ nav' = Navigate("/patient")
          /\ consumedStates' = consumedStates \cup {query.state}
          /\ runs' = [runs EXCEPT ![h] =
                        TokenAnswerOf([runs[h] EXCEPT !.pc = "done",
                                                      !.tokenData = tokenJson(resp)],
                                      resp)]
          /\ UNCHANGED error
  /\ UNCHANGED <<query, posts, fetches, loads, effects, draws, loadStore,
                 sentVerifiers, lastAuthRequest>>
  /\ UNCHANGED otherVars

Next ==
  \/ \E q \in Queries(draws) : PageLoad(q)
  \/ RunEffect
  \/ \E h \in DOMAIN runs :
       \E resp \in ConfigAnswers(runs[h].iss) :
         InitiateConfigResolved(h, resp)
  \/ \E h \in DOMAIN runs : InitiateChallengeResolved(h)
  \/ \E h \in DOMAIN runs :
       \E resp \in ConfigAnswers(runs[h].iss) :
         CallbackConfigResolved(h, resp)
  \/ \E h \in DOMAIN runs :
       \E resp \in TokenResponses : TokenAnswered(h, resp)

Spec == Init /\ [][Next]_vars

\* ------------------------------------------------- PkceSpec: actions
\* the launch sequence is not running
LaunchAtRest ==
  /\ store = EmptyStore
  /\ query = NoParams
  /\ runs = <<>>
  /\ hasInitialized = FALSE
  /\ error = NoError
  /\ nav = NoNav
  /\ medplum = NoClient
  /\ posts = <<>>
  /\ fetches = <<>>
  /\ loads = 0
  /\ effects = 0
  /\ draws = 0
  /\ loadStore = EmptyStore
  /\ sentVerifiers = <<>>
  /\ lastAuthRequest = NoUrl
  /\ consumedStates = {}

\* an array has been filled and is about to be encoded
PkceInit ==
  /\ LaunchAtRest
  /\ homeStates = {}
  /\ NotesAtRest
  /\ buffer \in Buffers
  /\ encoded = <<>>
  /\ challenges = <<>>
  /\ pkcePc = "drawn"

\* base64UrlEncode(buffer) returns
EncodeBuffer ==
  /\ pkcePc = "drawn"
  /\ encoded' = base64UrlEncode(buffer)
  /\ pkcePc' = "encoded"
  /\ UNCHANGED <<buffer, challenges, launchVars, homeVars, notesVars>>

\* generateCodeChallenge(encoded) resolves; it can be called again
ChallengeResolved ==
  /\ pkcePc = "encoded"
  /\ Len(challenges) < 2
  /\ challenges' = Append(challenges, codeChallengeText(encoded))
  /\ UNCHANGED <<buffer, encoded, pkcePc, launchVars, homeVars, notesVars>>

PkceNext == EncodeBuffer \/ ChallengeResolved

PkceSpec == PkceInit /\ [][PkceNext]_vars


\* ============================================================== HomePage
\* The two launch buttons of the home page (SmartLaunch) next to the
\* launch sequence, in one tab.
MEDPLUM_AUTH_URL == "https://api.medplum.com/oauth2/authorize"
SMART_HEALTH_IT_AUTH_URL == "https://launch.smarthealthit.org/v/r4/fhir"

\* the props of the two SmartLaunch elements of HomePage
SmartLaunchProps ==
  { [clientId |-> MEDPLUM_CLIENT_ID, iss |-> MEDPLUM_AUTH_URL],
    [clientId |-> SMART_HEALTH_IT_CLIENT_ID, iss |-> SMART_HEALTH_IT_AUTH_URL] }

\* `${iss}?${params}` of SmartLaunch.handleClick
SmartLaunchUrl(clientId, iss, state) ==
  [endpoint |-> iss,
   response_type |-> "code",
   client_id |-> clientId,
   scope |-> FHIR_SCOPE,
   redirect_uri |-> RedirectUri,
   state |-> state,
   aud |-> iss,
   launch |-> Null,
   code_challenge |-> Null,
   code_challenge_method |-> Null]

\* clicks on a launch button that are followed
MaxClicks == 1

\* The user has the home page in the tab (no handler of a launch page is
\* waiting for an answer) and clicks a launch button: handleClick draws a
\* state, puts it in the URL and sends the tab there; it stores nothing.
SmartLaunchClick(props) ==
  /\ loads = 0 \/ (Len(runs) > 0 /\ \A h \in DOMAIN runs : runs[h].pc \in {"done", "suspended"})
  /\ Cardinality(homeStates) < MaxClicks
  /\ draws' = draws + 1
  /\ homeStates' = homeStates \cup {randomUUID(draws + 1)}
  /\ nav' = Redirect(SmartLaunchUrl(props.clientId, props.iss, randomUUID(draws + 1)))
  /\ UNCHANGED <<store, query, runs, hasInitialized, error, medplum, posts,
                 fetches, loads, effects, loadStore, sentVerifiers,
                 lastAuthRequest, consumedStates>>
  /\ UNCHANGED <<pkceVars, notesVars>>

HomeNext ==
  \/ \E q \in Queries(draws) : loads < MaxLiveLoads /\ PageLoad(q)
  \/ RunEffect
  \/ \E h \in DOMAIN runs :
       \E resp \in ConfigAnswers(runs[h].iss) :
         InitiateConfigResolved(h, resp)
  \/ \E h \in DOMAIN runs : InitiateChallengeResolved(h)
  \/ \E h \in DOMAIN runs :
       \E resp \in ConfigAnswers(runs[h].iss) :
         CallbackConfigResolved(h, resp)
  \/ \E h \in DOMAIN runs :
       \E resp \in TokenResponses : TokenAnswered(h, resp)
  \/ \E props \in SmartLaunchProps : SmartLaunchClick(props)

\* a tab that holds no session of an earlier handshake
HomeInit == Init /\ store = EmptyStore

HomeSpec == HomeInit /\ [][HomeNext]_vars

\* -------------------------------------------------- NotesSpec: actions
\* the dashboard has just been opened on its first patient, with nothing
\* in localStorage
NotesInit ==
  /\ LaunchAtRest
  /\ PkceAtRest
  /\ homeStates = {}
  /\ NotesAtRest

\* saveManualNote / stopListening with a transcript: the new note is put in
\* front, and the save effect of the render that follows stores the list
SaveNote ==
  /\ nextId <= MaxNotes
  /\ LET ns == <<Note(nextId, patientId)>> \o notes
     IN /\ notes' = ns
        /\ localNotes' = saveEffect(localNotes, patientId, ns)
  /\ nextId' = nextId + 1
  /\ UNCHANGED <<patientId, launchVars, pkceVars, homeVars>>

\* deleteNote(id): the note is filtered out, the key is removed when none
\* is left, and the save effect of the render that follows stores the rest
deleteNote(id) ==
  /\ \E i \in DOMAIN notes : notes[i].id = id
  /\ LET remainingNotes == filterOut(notes, id)
         removed == IF Len(remainingNotes) = 0
                    THEN [localNotes EXCEPT ![patientId] = NoItem]
                    ELSE localNotes
     IN /\ notes' = remainingNotes
        /\ localNotes' = saveEffect(removed, patientId, remainingNotes)
  /\ UNCHANGED <<patientId, nextId, launchVars, pkceVars, homeVars>>

\* The selector sets another patient: VoiceNotes renders with the new
\* patientId and the notes it has; the load effect reads the new key and,
\* when there is text under it, calls setNotes; the save effect of the same
\* render stores the notes of that render under the new key; the render
\* that setNotes causes runs the save effect again with the loaded notes.
SwitchPatient(p) ==
  /\ p # patientId
  /\ patientId' = p
  /\ LET savedNotes == localNotes[p]
         afterSave == saveEffect(localNotes, p, notes)
     IN IF savedNotes.present
        THEN /\ notes' = parseNotes(savedNotes.text)
             /\ localNotes' = saveEffect(afterSave, p, parseNotes(savedNotes.text))
        ELSE /\ notes' = notes
             /\ localNotes' = afterSave
  /\ UNCHANGED <<nextId, launchVars, pkceVars, homeVars>>

\* The dashboard is loaded again: the selector starts at patient1 and
\* VoiceNotes mounts with no notes, loads what is under the key and the
\* save effect stores it again.
MountVoiceNotes ==
  /\ patientId' = "patient1"
  /\ LET savedNotes == localNotes["patient1"]
     IN IF savedNotes.present
        THEN /\ notes' = parseNotes(savedNotes.text)
             /\ localNotes' = saveEffect(localNotes, "patient1", parseNotes(savedNotes.text))
        ELSE /\ notes' = <<>>
             /\ UNCHANGED localNotes
  /\ UNCHANGED <<nextId, launchVars, pkceVars, homeVars>>

NotesNext ==
  \/ SaveNote
  \/ \E id \in 1..MaxNotes : deleteNote(id)
  \/ \E p \in Patients : SwitchPatient(p)
  \/ MountVoiceNotes

NotesSpec == NotesInit /\ [][NotesNext]_vars

\* =================================================================
\* Properties of the launch sequence
\* =================================================================

\* a parameter counts as present when the code's test of it passes
Present(v) == Truthy(v)

\* the current page load is an authorization response: code and state
\* present, no launch, no error
CallbackLoad ==
  /\ loads > 0
  /\ Present(query.code) /\ Present(query.state)
  /\ ~Present(query.launch) /\ ~Present(query.error)

\* handleSmartLaunch has been called in this page load
Handled == Len(runs) > 0

\* C1: a callback page load (code and state present, no launch, no error)
\* whose state differs from the value the page load found under smart_state
\* (nothing stored included) ends, as soon as it is handled, with the
\* state-mismatch error, and issues no token-exchange POST.
C1_StateMismatchRejected ==
  (CallbackLoad /\ query.state /= loadStore["smart_state"])
    => /\ posts = <<>>
       /\ Handled => error = StateMismatchMsg

\* a handled callback whose state differs from a state that is stored
C1_Witness ==
  /\ CallbackLoad /\ Handled
  /\ Present(loadStore["smart_state"])
  /\ query.state /= loadStore["smart_state"]
  /\ error = StateMismatchMsg

\* C2: however often the effect is invoked in one page load, and whatever
\* the first invocation is waiting for, handleSmartLaunch is started once
\* and at most one token-exchange POST is issued; a callback that got to its
\* token request or through it has issued exactly one.
C2_OneExchangePerNavigation ==
  /\ Len(runs) <= 1
  /\ Len(posts) <= 1
  /\ (\E h \in DOMAIN runs : runs[h].pc = "cb_token" \/ runs[h].tokenData /= NoToken)
       => Len(posts) = 1

\* the effect ran a second time while the token request was pending
C2_Witness ==
  /\ effects = 2
  /\ Len(runs) = 1 /\ runs[1].pc = "cb_token"
  /\ Len(posts) = 1

\* the text shown for an OAuth error answer: error, then " - " and the
\* description when there is one
CombinedErrorText ==
  IF Present(query.error_description)
  THEN <<"OAuth error: ", query.error, " - ", query.error_description>>
  ELSE <<"OAuth error: ", query.error>>

\* C3: a page load whose query carries an error parameter, whatever else it
\* carries, issues no discovery fetch and no token-exchange POST, writes
\* nothing to the store, leaves no invocation pending (nothing is validated
\* or exchanged), and shows the error and error_description texts combined.
C3_OAuthErrorShortCircuits ==
  (loads > 0 /\ Present(query.error))
    => /\ fetches = <<>>
       /\ posts = <<>>
       /\ store = loadStore
       /\ nav = NoNav
       /\ \A h \in DOMAIN runs : runs[h] = Finished
       /\ Handled => error = CombinedErrorText

\* an error answer on top of launch, code and a state that is stored
C3_Witness ==
  /\ loads > 0 /\ Handled
  /\ Present(query.error) /\ Present(query.error_description)
  /\ Present(query.launch) /\ Present(query.code)
  /\ query.state = store["smart_state"]
  /\ error = <<"OAuth error: ", "access_denied", " - ", "User denied">>


\* the current page load has code present, no launch and no error, and
\* found nothing stored under smart_code_verifier
NoVerifierCallback ==
  /\ loads > 0
  /\ Present(query.code)
  /\ ~Present(query.launch) /\ ~Present(query.error)
  /\ ~Present(loadStore["smart_code_verifier"])

MatchedCallback == CallbackLoad /\ query.state = loadStore["smart_state"]

\* the configurations fetchSmartConfiguration can return for an issuer
ResolvedConfigs(iss) ==
  {fetchSmartConfiguration(iss, r) :
     r \in {a \in ConfigAnswers(iss) : fetchSmartConfigurationError(iss, a) = NoError}}

\* C5: a callback whose state matches the stored state issues at most one
\* POST, and every POST goes to the token endpoint resolved for the stored
\* issuer, with the callback's code and the stored code verifier; once the
\* stored issuer's configuration and client id are resolved and a verifier
\* is stored, it has issued exactly one.
C5_ExchangeRequest ==
  MatchedCallback
    => /\ Len(posts) <= 1
       /\ \A i \in DOMAIN posts :
            /\ \E h \in DOMAIN runs :
                 /\ runs[h].iss = loadStore["smart_iss"]
                 /\ runs[h].config \in ResolvedConfigs(loadStore["smart_iss"])
                 /\ posts[i].endpoint = runs[h].config.token_endpoint
            /\ posts[i].body.code = query.code
            /\ Present(loadStore["smart_code_verifier"])
            /\ posts[i].body.code_verifier = loadStore["smart_code_verifier"]
       /\ \A h \in DOMAIN runs :
            ( /\ runs[h].pc \in {"cb_token", "done"}
              /\ runs[h].config /= NoConfig
              /\ (Present(query.client_id) \/ ValidUrl(loadStore["smart_iss"]))
              /\ Present(loadStore["smart_code_verifier"]) )
              => Len(posts) = 1

\* a matched callback that sent its code and the stored verifier to the
\* token endpoint of the issuer's discovery document
C5_Witness ==
  /\ MatchedCallback
  /\ loadStore["smart_iss"] = EhrIss
  /\ Len(posts) = 1
  /\ posts[1].endpoint = "https://ehr.example.org/token"
  /\ posts[1].body.code = "code2"
  /\ posts[1].body.code_verifier = "verifier-1"

\* C6: once the token response of a callback is parsed, the store holds
\* its access_token and patient under smart_access_token and smart_patient,
\* the issuer stored at initiation under smart_base_url, and nothing under
\* smart_iss, smart_state and smart_code_verifier.
C6_SessionStored ==
  \A h \in DOMAIN runs :
    runs[h].tokenData /= NoToken
      => /\ store["smart_access_token"] = runs[h].tokenData.access_token
         /\ store["smart_patient"] = runs[h].tokenData.patient
         /\ store["smart_base_url"] = loadStore["smart_iss"]
         /\ \A k \in InFlightKeys : store[k] = Null

\* a successful exchange with the issuer stored at initiation
C6_Witness ==
  /\ Len(runs) = 1 /\ runs[1].tokenData /= NoToken
  /\ loadStore["smart_iss"] = EhrIss
  /\ store["smart_access_token"] = "tok2"
  /\ store["smart_patient"] = "pat2"
  /\ store["smart_base_url"] = EhrIss
  /\ nav = Navigate("/patient")

\* the messages of a callback that failed validation
ValidationFailures ==
  {MissingParamsMsg(<<"code">>), MissingParamsMsg(<<"state">>),
   MissingParamsMsg(<<"code", "state">>), StateMismatchMsg, MissingVerifierMsg}

\* C7: once a callback has failed validation (code or state missing, state
\* mismatch, stored verifier missing), smart_iss, smart_state and
\* smart_code_verifier are cleared from the store.
C7_ClearedAfterValidationFailure ==
  (loads > 0 /\ ~Present(query.launch) /\ ~Present(query.error)
     /\ error \in ValidationFailures)
    => \A k \in InFlightKeys : store[k] = Null

\* C8: no two token-exchange POSTs of the tab carry the same code verifier.
C8_VerifierConsumedOnce ==
  \A i, j \in DOMAIN sentVerifiers :
    i /= j => sentVerifiers[i] /= sentVerifiers[j]

\* C9: a token-exchange POST of the callback that answers the tab's last
\* authorization redirect carries the client_id of that redirect.
C9_SameClientId ==
  \A i \in DOMAIN posts :
    (CallbackLoad /\ query.state = lastAuthRequest.state)
      => posts[i].body.client_id = lastAuthRequest.client_id

\* the client id the precedence rule gives: the client_id parameter when
\* present, else the SMART Health IT id for an allow-listed hostname, else
\* the Medplum id
ExpectedClientId(cid, iss) ==
  IF Present(cid) THEN cid
  ELSE IF Hostname(iss) = "smarthealthit.org" THEN "your-client-id"
  ELSE "d68a6a98-d5ea-4e1b-9dff-ae215249179f"

\* C10: the client id getClientId returns, at initiation for the redirect
\* and at callback for the token request, is the client_id parameter when
\* it is present, otherwise the SMART Health IT id when the issuer's
\* hostname is in the allow-list, otherwise the Medplum id.
C10_ClientIdPrecedence ==
  /\ nav.kind = "redirect"
       => nav.url.client_id = ExpectedClientId(query.client_id, query.iss)
  /\ \A i \in DOMAIN posts :
       posts[i].body.client_id = ExpectedClientId(query.client_id, loadStore["smart_iss"])

\* an initiation at the allow-listed issuer whose client_id parameter is
\* empty, redirected with the SMART Health IT id
C10_Witness ==
  /\ nav.kind = "redirect"
  /\ query.client_id = ""
  /\ query.iss = SmartHealthIss
  /\ nav.url.client_id = "your-client-id"

\* C11: a handler invocation that resolves the configuration of the Medplum
\* issuer, at initiation (issuer from the query) or at callback (issuer from
\* the store), issues no discovery fetch in its page load, and the
\* configuration it gets is the hardcoded pair: its redirect goes to
\* https://api.medplum.com/oauth2/authorize and its token request to
\* https://api.medplum.com/oauth2/token.
C11_MedplumHardcoded ==
  \A h \in DOMAIN runs :
    runs[h].iss = "https://api.medplum.com/fhir/R4"
      => /\ fetches = <<>>
         /\ runs[h].configAnswer # "none"
              => runs[h].config =
                   [authorization_endpoint |-> "https://api.medplum.com/oauth2/authorize",
                    token_endpoint |-> "https://api.medplum.com/oauth2/token"]
         /\ nav.kind = "redirect"
              => nav.url.endpoint = "https://api.medplum.com/oauth2/authorize"
         /\ \A i \in DOMAIN posts :
              posts[i].endpoint = "https://api.medplum.com/oauth2/token"

\* a callback for the stored Medplum issuer that has sent its token request
\* to the hardcoded token endpoint without any discovery fetch
C11_Witness ==
  /\ CallbackLoad
  /\ loadStore["smart_iss"] = MedplumIss
  /\ Len(posts) = 1
  /\ posts[1].endpoint = "https://api.medplum.com/oauth2/token"
  /\ fetches = <<>>

\* C12: when the discovery fetch of a handler invocation is answered with a
\* non-success status, the invocation ends with the error "Failed to fetch
\* SMART configuration from <discovery URL>: <status> <status text>"; when the fetch
\* gets no answer at all, it ends with the fetch's own error.  Either way
\* the page load makes no redirect and no navigation, issues no token
\* request, and has issued exactly one discovery fetch.
C12_DiscoveryFailureAborts ==
  \A h \in DOMAIN runs :
    runs[h].configAnswer \in {"not_ok", "network_error"}
      => /\ runs[h].pc = "done"
         /\ runs[h].configAnswer = "not_ok"
              => error = <<"Failed to fetch SMART configuration from ",
                           runs[h].iss \o "/.well-known/smart-configuration",
                           ": ", "404", " ", "Not Found">>
         /\ runs[h].configAnswer = "network_error" => error = FetchFailedMsg
         /\ nav = NoNav
         /\ posts = <<>>
         /\ Len(fetches) = 1

\* an initiation whose discovery fetch was answered 404 and which ended
\* with the configuration error and no redirect
C12_Witness ==
  /\ Present(query.launch)
  /\ Len(runs) = 1
  /\ runs[1].configAnswer = "not_ok"
  /\ error # NoError
  /\ nav = NoNav

\* a discovery document that lacks one of the two endpoints
Malformed(config) ==
  \/ config.authorization_endpoint = Undefined
  \/ config.token_endpoint = Undefined

\* C13: a handler invocation whose discovery fetch returned a document
\* without authorization_endpoint or without token_endpoint has ended with
\* an error, and its page load makes no redirect and issues no token
\* request; in particular no redirect and no token request goes to an
\* undefined endpoint.
C13_MalformedConfigurationRejected ==
  /\ \A h \in DOMAIN runs :
       Malformed(runs[h].config)
         => /\ runs[h].pc = "done"
            /\ error # NoError
            /\ nav.kind # "redirect"
            /\ posts = <<>>
  /\ nav.kind = "redirect" => nav.url.endpoint # Undefined
  /\ \A i \in DOMAIN posts : posts[i].endpoint # Undefined

\* C14: once an initiation with launch and iss has redirected, the redirect
\* URL targets the authorization endpoint resolved for iss and carries
\* response_type=code, aud = iss, launch = the inbound launch,
\* code_challenge_method=S256, state = the value stored under smart_state
\* and code_challenge = the S256 challenge of the value stored under
\* smart_code_verifier; smart_iss holds iss.
C14_RedirectMatchesStore ==
  nav.kind = "redirect"
    => /\ Present(query.launch) /\ Present(query.iss)
       /\ \E c \in ResolvedConfigs(query.iss) :
            nav.url.endpoint = c.authorization_endpoint
       /\ nav.url.response_type = "code"
       /\ nav.url.aud = query.iss
       /\ nav.url.launch = query.launch
       /\ nav.url.code_challenge_method = "S256"
       /\ Present(store["smart_state"])
       /\ nav.url.state = store["smart_state"]
       /\ Present(store["smart_code_verifier"])
       /\ nav.url.code_challenge = "S256(" \o store["smart_code_verifier"] \o ")"
       /\ store["smart_iss"] = query.iss

\* a second initiation, at the discovered issuer, redirected to that
\* issuer's authorization endpoint with the freshly stored state
C14_Witness ==
  /\ nav.kind = "redirect"
  /\ query.iss = EhrIss
  /\ nav.url.endpoint = "https://ehr.example.org/authorize"
  /\ nav.url.aud = EhrIss
  /\ store["smart_state"] = "uuid-2"
  /\ nav.url.state = "uuid-2"
  /\ nav.url.code_challenge = "S256(verifier-2)"

\* the current page load carries neither launch nor code (and no error)
BareLoad ==
  /\ loads > 0
  /\ ~Present(query.launch) /\ ~Present(query.code) /\ ~Present(query.error)

\* a previous handshake left its session in the store
PriorSession ==
  Present(store["smart_access_token"]) /\ Present(store["smart_patient"])

\* C15: a page load with neither launch nor code, once handled, has
\* navigated to /patient when smart_access_token and smart_patient are
\* stored, and to the home page when they are not.
C15_BareLoadNavigation ==
  (BareLoad /\ Handled)
    => nav = IF PriorSession THEN Navigate("/patient") ELSE Navigate("/")

\* the current page load has no launch and no error, and lacks the code or
\* the state but not both
PartialCallback ==
  /\ loads > 0
  /\ ~Present(query.launch) /\ ~Present(query.error)
  /\ Present(query.code) # Present(query.state)

\* C16 as stated: a page load without launch and error in which the code
\* or the state is absent ends, once handled, with the missing-parameter
\* error naming the absent parameter, and issues no token request.
C16_MissingParameterNamed ==
  (PartialCallback /\ Handled)
    => /\ error = <<"Missing required parameters in authorization response: ",
                    IF Present(query.code) THEN "state" ELSE "code">>
       /\ posts = <<>>

\* C16: a page load without launch and error, once handled, issues no
\* token request when the code or the state is absent; with the code
\* present and the state absent it ends with the missing-parameter error
\* naming state and has issued no discovery fetch; with the code absent it
\* is not taken as a callback: it navigates away within the application
\* and shows no error, whether or not a state is present.
C16_MissingStateNamedMissingCodeHome ==
  (loads > 0 /\ ~Present(query.launch) /\ ~Present(query.error) /\ Handled)
    => /\ (Present(query.code) /\ ~Present(query.state))
            => /\ error = <<"Missing required parameters in authorization response: ",
                            "state">>
               /\ posts = <<>> /\ fetches = <<>> /\ nav = NoNav
       /\ ~Present(query.code)
            => /\ error = NoError
               /\ nav.kind = "navigate"
               /\ posts = <<>> /\ fetches = <<>>

\* a handled page load with a code and no state, after an initiation has
\* stored its state, showing the missing-parameter error
C16_Witness ==
  /\ PartialCallback /\ Handled
  /\ query.code = "code1" /\ query.state = Null
  /\ Present(store["smart_state"])
  /\ error = MissingParamsMsg(<<"state">>)
  /\ posts = <<>>

\* C17: an initiation (a page load with launch and no error parameter) that
\* has ended with an error leaves smart_iss, smart_state and
\* smart_code_verifier with the values the page load found.
C17_FailedInitiationWritesNothing ==
  (loads > 0 /\ Present(query.launch) /\ ~Present(query.error) /\ error # NoError)
    => \A k \in {"smart_iss", "smart_state", "smart_code_verifier"} :
         store[k] = loadStore[k]

\* the state and the verifier of store s are both absent, or both present
\* and drawn by the same initiation
StoredTogether(s) ==
  /\ Present(s["smart_state"]) <=> Present(s["smart_code_verifier"])
  /\ \A n \in 1..draws :
       s["smart_state"] = "uuid-" \o ToString(n)
         <=> s["smart_code_verifier"] = "verifier-" \o ToString(n)

\* C18: the store a page load finds, which is the store the page load
\* before it left when it ended (torn down at an await point included),
\* and the store of a page load that has redirected or shown an error, hold
\* smart_state exactly when they hold smart_code_verifier, both from the
\* same initiation.
C18_StateAndVerifierTogether ==
  /\ StoredTogether(loadStore)
  /\ (nav.kind = "redirect" \/ error # NoError) => StoredTogether(store)

\* the code verifiers generated so far
Verifiers == {"verifier-" \o ToString(n) : n \in 1..draws}

\* C19: no generated code verifier is the discovery request's URL or any
\* parameter of an authorization redirect URL (the redirect carries the
\* S256 challenge of the stored verifier), and in a token request a
\* verifier appears only as the code_verifier field.
C19_VerifierOnlyInTokenRequest ==
  /\ \A i \in DOMAIN fetches : fetches[i] \notin Verifiers
  /\ \A f \in DOMAIN nav.url : nav.url[f] \notin Verifiers
  /\ \A f \in DOMAIN lastAuthRequest : lastAuthRequest[f] \notin Verifiers
  /\ nav.kind = "redirect"
       => nav.url.code_challenge = "S256(" \o store["smart_code_verifier"] \o ")"
  /\ \A i \in DOMAIN posts :
       /\ posts[i].endpoint \notin Verifiers
       /\ \A f \in DOMAIN posts[i].body \ {"code_verifier"} :
            posts[i].body[f] \notin Verifiers

\* a token request that carries, as code_verifier, the verifier whose
\* challenge the authorization redirect carried, after a discovery fetch
C19_Witness ==
  /\ Len(posts) = 1
  /\ Len(fetches) = 1
  /\ posts[1].body.code_verifier \in Verifiers
  /\ lastAuthRequest.code_challenge = "S256(" \o posts[1].body.code_verifier \o ")"

\* C20: a handler invocation whose token request was answered with a
\* non-success status has ended with the error "Failed to get access
\* token: <status> <body>", without navigating, and smart_access_token,
\* smart_patient and smart_base_url hold the values the page load found.
C20_TokenFailureLeavesSession ==
  \A h \in DOMAIN runs :
    runs[h].tokenAnswer = "not_ok"
      => /\ runs[h].pc = "done"
         /\ error = <<"Failed to get access token: ", "400", " ", "invalid_grant">>
         /\ nav = NoNav
         /\ \A k \in {"smart_access_token", "smart_patient", "smart_base_url"} :
              store[k] = loadStore[k]

\* a handshake in a tab that holds an earlier session, whose token request
\* was answered 400 and which left that session as it was
C20_Witness ==
  /\ Len(runs) = 1
  /\ runs[1].tokenAnswer = "not_ok"
  /\ store["smart_access_token"] = "tok0"
  /\ store["smart_patient"] = "pat0"
  /\ error # NoError

\* the characters of unpadded URL-safe base64 text
UrlSafeAlphabet ==
  {Base64Alphabet[i] : i \in 1..62} \cup {"-", "_"}

\* the bytes a URL-safe unpadded base64 text stands for
base64UrlDecode(text) ==
  LET idx(s) == IF s <= Len(text) THEN UrlSafeIndex(text[s]) ELSE 0
  IN [k \in 1..((Len(text) * 6) \div 8) |->
        LET o == (k - 1) * 8
            s == (o \div 6) + 1
            r == o % 6
        IN ((idx(s) * 64 + idx(s + 1)) \div Pow2(4 - r)) % 256]

\* C21: the text base64UrlEncode returns for a byte array consists of
\* characters of the URL-safe alphabet only (no '+', '/' or '='), has the
\* unpadded length and decodes back to the array; for a 32-byte array it
\* has 43 characters; every result of generateCodeChallenge for the same
\* verifier is the same text, of 43 URL-safe characters.
C21_UrlSafeUnpadded ==
  pkcePc = "encoded"
    => /\ \A j \in DOMAIN encoded :
            /\ encoded[j] \notin {"+", "/", "="}
            /\ encoded[j] \in UrlSafeAlphabet
       /\ Len(encoded) = (Len(buffer) * 8 + 5) \div 6
       /\ base64UrlDecode(encoded) = buffer
       /\ Len(buffer) = 32 => Len(encoded) = 43
       /\ \A i \in DOMAIN challenges :
            /\ Len(challenges[i]) = 43
            /\ \A j \in DOMAIN challenges[i] : challenges[i][j] \in UrlSafeAlphabet
            /\ challenges[i] = challenges[1]

\* a 32-byte array of 255s encoded (btoa gives '/' for it) and its challenge
\* computed twice
C21_Witness ==
  /\ pkcePc = "encoded"
  /\ Len(buffer) = 32
  /\ buffer[1] = 255
  /\ encoded[1] = "_"
  /\ Len(encoded) = 43
  /\ Len(challenges) = 2

\* C22: a callback page load (code present, no launch, no error) that found
\* no code verifier stored issues no discovery fetch and no token request.
C22_VerifierCheckedBeforeNetwork ==
  (/\ loads > 0
   /\ Present(query.code) /\ ~Present(query.launch) /\ ~Present(query.error)
   /\ ~Present(loadStore["smart_code_verifier"]))
    => fetches = <<>> /\ posts = <<>>

\* ------------------------------------------------------------ LiveSpec
\* The launch sequence with its scheduling: React runs the effect of a
\* mounted page, every fetch is answered (with success or not) and the
\* digest resolves.  Page loads are the user's and the browser's doing and
\* are not forced.
LiveNext ==
  \/ \E q \in Queries(draws) : loads < MaxLiveLoads /\ PageLoad(q)
  \/ RunEffect
  \/ \E h \in DOMAIN runs :
       \E resp \in ConfigAnswers(runs[h].iss) :
         InitiateConfigResolved(h, resp)
  \/ \E h \in DOMAIN runs : InitiateChallengeResolved(h)
  \/ \E h \in DOMAIN runs :
       \E resp \in ConfigAnswers(runs[h].iss) :
         CallbackConfigResolved(h, resp)
  \/ \E h \in DOMAIN runs :
       \E resp \in TokenResponses : TokenAnswered(h, resp)

LiveSpec ==
  /\ Init
  /\ [][LiveNext]_vars
  /\ WF_vars(RunEffect)
  /\ WF_vars(\E h \in DOMAIN runs :
               \E resp \in ConfigAnswers(runs[h].iss) : InitiateConfigResolved(h, resp))
  /\ WF_vars(\E h \in DOMAIN runs : InitiateChallengeResolved(h))
  /\ WF_vars(\E h \in DOMAIN runs :
               \E resp \in ConfigAnswers(runs[h].iss) : CallbackConfigResolved(h, resp))
  /\ WF_vars(\E h \in DOMAIN runs : \E resp \in TokenResponses : TokenAnswered(h, resp))

\* the current page load has redirected to an authorization endpoint,
\* navigated to the home view or to the dashboard, or shows an error
Redirected == nav.kind = "redirect"
NavigatedHome == nav = Navigate("/")
NavigatedDashboard == nav = Navigate("/patient")
ErrorShown == error # NoError
Outcomes == {o \in {"redirect", "home", "dashboard", "error"} :
               \/ o = "redirect" /\ Redirected
               \/ o = "home" /\ NavigatedHome
               \/ o = "dashboard" /\ NavigatedDashboard
               \/ o = "error" /\ ErrorShown}

\* no invocation of handleSmartLaunch is waiting for an answer
NothingPending ==
  \A h \in DOMAIN runs : runs[h].pc \in {"done", "suspended"}

\* C23: every page load that is not replaced by another one eventually has
\* an outcome; a page load never has two outcomes; once every invocation
\* of the handler has returned or is parked behind its redirect the page
\* load has exactly one (an invocation that ended without navigating shows
\* an error); and once an error is shown no request is pending and no new
\* invocation, discovery fetch or token request follows in that page load.
C23_OneOutcomePerPageLoad ==
  /\ [](Cardinality(Outcomes) <= 1)
  /\ []((Handled /\ NothingPending) => Cardinality(Outcomes) = 1)
  /\ [](ErrorShown => NothingPending)
  /\ [][(ErrorShown /\ loads' = loads)
          => /\ runs' = runs /\ fetches' = fetches /\ posts' = posts
             /\ error' = error /\ nav' = nav]_vars
  /\ \A n \in 1..MaxLiveLoads :
       (loads = n) ~> (Cardinality(Outcomes) = 1 \/ loads # n)

\* a page load whose token request got no answer from the network shows
\* the error and has nothing pending
C23_Witness ==
  /\ Len(runs) = 1
  /\ runs[1].tokenAnswer = "network_error"
  /\ runs[1].pc = "done"
  /\ Outcomes = {"error"}

\* C24: a token request of a callback whose state is the state of the
\* tab's last authorization redirect goes to a token endpoint of the issuer
\* that initiation was for (the redirect's aud), and carries the verifier
\* whose challenge that redirect carried.
C24_ExchangeAtInitiatingIssuer ==
  \A i \in DOMAIN posts :
    (CallbackLoad /\ query.state = lastAuthRequest.state)
      => /\ \E c \in ResolvedConfigs(lastAuthRequest.aud) :
              posts[i].endpoint = c.token_endpoint
         /\ lastAuthRequest.code_challenge
              = "S256(" \o posts[i].body.code_verifier \o ")"

\* the three session keys of a store
SessionTriple(s) ==
  <<s["smart_patient"], s["smart_access_token"], s["smart_base_url"]>>

\* C25: in every reachable store the three session keys are all absent or
\* all present, with the patient and the token of one token response; a
\* step changes any of them only by writing all three from the token
\* response that has just arrived and the issuer it was requested from;
\* and a step that makes the page load show an error changes none of them.
C25_SessionTripleWhole ==
  /\ [](/\ Present(store["smart_patient"]) <=> Present(store["smart_access_token"])
        /\ Present(store["smart_patient"]) <=> Present(store["smart_base_url"])
        /\ \A n \in {"0", "1", "2"} :
             store["smart_access_token"] = "tok" \o n
               <=> store["smart_patient"] = "pat" \o n)
  /\ [][/\ SessionTriple(store') # SessionTriple(store)
             => \E h \in DOMAIN runs :
                  /\ runs[h].pc = "cb_token"
                  /\ runs'[h].tokenAnswer = "ok"
                  /\ SessionTriple(store')
                       = <<runs'[h].tokenData.patient,
                           runs'[h].tokenData.access_token, runs[h].iss>>
        /\ (error' # NoError /\ error' # error)
             => SessionTriple(store') = SessionTriple(store)]_vars

\* a handshake at the discovered issuer has replaced the session the tab
\* held before by its own three values
C25_Witness ==
  /\ SessionTriple(loadStore) = <<"pat0", "tok0", MedplumIss>>
  /\ SessionTriple(store) = <<"pat2", "tok2", EhrIss>>

\* hostnames of Medplum
MedplumHosts == {"api.medplum.com"}

\* the host of a token endpoint: the Medplum API for the hardcoded one, the
\* issuer's own host for a discovered one
TokenEndpointHost(url) ==
  IF url = "https://api.medplum.com/oauth2/token" THEN "api.medplum.com"
  ELSE IF \E i \in Issuers : ValidUrl(i) /\ url = i \o "/token"
  THEN Hostname(CHOOSE i \in Issuers : ValidUrl(i) /\ url = i \o "/token")
  ELSE Null

\* C26: a handler invocation is given the hardcoded Medplum configuration
\* only for an issuer whose hostname is a Medplum host; and once a token
\* response has been stored, the host of smart_base_url is the host of the
\* token endpoint the token was requested from.
C26_BaseUrlOnTokenHost ==
  \A h \in DOMAIN runs :
    /\ runs[h].configAnswer = "hardcoded"
         => Hostname(runs[h].iss) \in MedplumHosts
    /\ (runs[h].tokenAnswer = "ok" /\ Len(posts) = 1)
         => Hostname(store["smart_base_url"]) = TokenEndpointHost(posts[1].endpoint)

\* the current page load is a callback whose state parameter is the state
\* of a callback that completed its exchange in an earlier page load
ReplayedCallback ==
  /\ CallbackLoad
  /\ query.state \in consumedStates
  /\ \A h \in DOMAIN runs : runs[h].tokenAnswer # "ok"

\* C27: a callback page load whose state is that of a handshake that has
\* already succeeded in the tab ends, once handled, with the state-mismatch
\* error, issues no discovery fetch and no token request, and leaves the
\* three session keys as it found them.
C27_ReplayRejected ==
  (ReplayedCallback /\ Handled)
    => /\ error = <<"State parameter mismatch - possible session expired. Please try launching the app again.">>
       /\ posts = <<>>
       /\ fetches = <<>>
       /\ SessionTriple(store) = SessionTriple(loadStore)

\* the callback of a completed handshake loaded again, rejected, with the
\* session of that handshake still stored
C27_Witness ==
  /\ ReplayedCallback /\ Handled
  /\ query.code = "code1"
  /\ store["smart_access_token"] = "tok1"
  /\ error = StateMismatchMsg

\* the current page load carries both launch and code (and no error)
LaunchWithCode ==
  /\ loads > 0
  /\ Present(query.launch) /\ Present(query.code) /\ ~Present(query.error)

\* C28: a page load that carries both launch and code is handled as an
\* initiation: every invocation of the handler is in, or was ended by,
\* initiateEhrLaunch, so it shows no validation error and issues no token
\* request; and when it has come to rest without an error it has
\* redirected, with smart_iss set to the query's iss and a state and a
\* verifier stored that were drawn in this page load.
C28_LaunchTakesPrecedence ==
  LaunchWithCode
    => /\ posts = <<>>
       /\ error \notin ValidationFailures
       /\ \A h \in DOMAIN runs :
            /\ runs[h].pc \in {"init_config", "init_challenge", "suspended", "done"}
            /\ runs[h].tokenAnswer = "none"
       /\ (Handled /\ NothingPending /\ error = NoError)
            => /\ nav.kind = "redirect"
               /\ store["smart_iss"] = query.iss
               /\ store["smart_state"] = "uuid-" \o ToString(draws)
               /\ store["smart_code_verifier"] = "verifier-" \o ToString(draws)
               /\ store["smart_state"] # loadStore["smart_state"]
               /\ store["smart_code_verifier"] # loadStore["smart_code_verifier"]

\* a page load with launch and code that has redirected, replacing the
\* state and verifier of an earlier initiation
C28_Witness ==
  /\ LaunchWithCode
  /\ nav.kind = "redirect"
  /\ loadStore["smart_state"] = "uuid-1"
  /\ store["smart_state"] = "uuid-2"
  /\ store["smart_iss"] = EhrIss

\* C29: the home page's launch button stores nothing: no state it has
\* drawn is ever under smart_state.  A token request is issued only in a
\* callback page load whose state is the value the page load found under
\* smart_state, a value initiateEhrLaunch drew.  A callback page load whose
\* state was drawn by the home page's button ends, once handled, with the
\* state-mismatch error, issues no discovery fetch and no token request,
\* does not navigate to the dashboard and leaves the session keys as found.
C29_HomeLaunchNeverExchanges ==
  /\ store["smart_state"] \notin homeStates
  /\ posts # <<>>
       => /\ CallbackLoad
          /\ query.state = loadStore["smart_state"]
          /\ query.state \in DrawnStates(draws) \ homeStates
  /\ (CallbackLoad /\ query.state \in homeStates /\ Handled)
       => /\ error = <<"State parameter mismatch - possible session expired. Please try launching the app again.">>
          /\ posts = <<>>
          /\ fetches = <<>>
          /\ medplum = NoClient
          /\ SessionTriple(store) = SessionTriple(loadStore)

\* the callback of a home page launch, arriving while the state of an EHR
\* launch is stored, rejected
C29_Witness ==
  /\ CallbackLoad /\ Handled
  /\ query.state \in homeStates
  /\ Present(loadStore["smart_state"])
  /\ error = StateMismatchMsg

\* C30: the list stored under patient-notes-P holds only notes that were
\* created while P was the patientId of VoiceNotes.
C30_NotesUnderOwnPatient ==
  \A p \in Patients :
    localNotes[p].present
      => \A i \in DOMAIN localNotes[p].text : localNotes[p].text[i].createdFor = p

====
